---- MODULE Spec2Model ----
(***************************************************************************)
(* A model of inrs-ai/top50: the daily digest run of main.py and the       *)
(* ticker refresh of update_tickers.py.                                    *)
(*                                                                         *)
(* Spec        one run of main.py: main(), statement by statement.         *)
(* SpecUpdate  one run of update_tickers.py: update_top_50_tickers().      *)
(*                                                                         *)
(* Prices are integers in thousandths of a dollar, a rounded close is in   *)
(* cents and a percent change is in hundredths of a percent, so that       *)
(* round(x, 2) is a division with rounding and not the identity.           *)
(***************************************************************************)
EXTENDS Integers, Sequences, FiniteSets

VARIABLES
    tickers_json,      \* the file tickers.json: Missing, or the list it holds
    RESEND_API_KEY,    \* main.py:11, TRUE iff set and non-empty
    GEMINI_API_KEY,    \* main.py:14, "unset" | "empty" | "set"
    NEWSDATA_API_KEY,  \* main.py:15, TRUE iff set and non-empty
    pc,                \* the statement of main() that runs next
    tickers,           \* main: tickers
    data,              \* fetch_market_data: data, the answer of yf.download
    rows,              \* fetch_market_data: rows
    df,                \* main: df, the snapshot
    news_headlines,    \* main: news_headlines
    llm_resp,          \* what the language-model provider answered, "none" before
    analysis_text,     \* main: analysis_text
    html_body,         \* main: html_body
    email_resp,        \* what the email provider answered, "none" before
    calls,             \* the providers contacted so far in this run
    exit_code,         \* "none" while running, then "0" or "nonzero"
    upc,               \* the statement of update_top_50_tickers() that runs next
    old_json,          \* tickers.json as it was when the refresh started
    base,              \* how pd.read_html ended: "none" | "failed" | "ok"
    u_tickers,         \* update_top_50_tickers: tickers
    index,             \* update_top_50_tickers: the number of symbols looked up
    looked_up,         \* the outcome of each lookup, in order
    data_list,         \* update_top_50_tickers: data_list
    top_50             \* update_top_50_tickers: top_50

mainVars == <<RESEND_API_KEY, GEMINI_API_KEY, NEWSDATA_API_KEY, pc, tickers, data,
              rows, df, news_headlines, llm_resp, analysis_text, html_body,
              email_resp, calls, exit_code>>
updVars == <<upc, old_json, base, u_tickers, index, looked_up, data_list, top_50>>
vars == <<tickers_json, mainVars, updVars>>

(***************************************************************************)
(* Bounds of the model.                                                    *)
(***************************************************************************)
\* the rows of the downloaded window (period="5d" gives at most 5)
MaxRows == 2

\* tickers.json when it does not exist, and when it holds a list
Missing == [exists |-> FALSE, content |-> <<>>]
File(list) == [exists |-> TRUE, content |-> list]
Symbols == {"AAPL", "MSFT"}
Prices == {0, 32000, 33004}

Range(s) == {s[i] : i \in DOMAIN s}

RECURSIVE SeqsNoDup(_, _)
\* the sequences of at most n distinct elements of S
SeqsNoDup(S, n) ==
    IF n = 0 THEN {<<>>}
    ELSE LET P == SeqsNoDup(S, n - 1)
         IN  P \cup UNION {{<<x>> \o t : t \in {u \in P : x \notin Range(u)}} : x \in S}

RECURSIVE SeqsOfLen(_, _)
SeqsOfLen(S, n) ==
    IF n = 0 THEN {<<>>} ELSE {<<x>> \o s : x \in S, s \in SeqsOfLen(S, n - 1)}

(***************************************************************************)
(* main.py                                                                 *)
(***************************************************************************)
CompanyName(s) == IF s = "AAPL" THEN "Apple Inc." ELSE "Microsoft Corporation"
CompanyIndustry(s) == IF s = "AAPL" THEN "Consumer Electronics" ELSE "Software"

\* one record of tickers.json
TickerRecord(s) == [symbol |-> s, name |-> CompanyName(s), industry |-> CompanyIndustry(s)]

\* what tickers.json may hold when main.py starts
TickerFiles ==
    {Missing} \cup
    {File([i \in DOMAIN s |-> TickerRecord(s[i])]) :
        s \in SeqsNoDup(Symbols, Cardinality(Symbols))}

\* load_tickers()
load_tickers(file) == IF ~file.exists THEN <<>> ELSE file.content

\* a row of a downloaded series: na is TRUE when one of its values is missing
NaRow == [na |-> TRUE, Close |-> 0]
DataRows == {NaRow} \cup {[na |-> FALSE, Close |-> p] : p \in Prices}

\* a column group of the downloaded frame: absent, or one row per date
Columns(n) ==
    {[present |-> FALSE, series |-> <<>>]} \cup
    {[present |-> TRUE, series |-> s] : s \in SeqsOfLen(DataRows, n)}

\* what yf.download may answer for these symbols: it raises, or it
\* returns a frame of n dates with a column group for each symbol
Downloads(syms) ==
    {[raised |-> TRUE, frame |-> [s \in syms |-> [present |-> FALSE, series |-> <<>>]]]} \cup
    {[raised |-> FALSE, frame |-> f] :
        f \in UNION {[syms -> Columns(n)] : n \in 0..MaxRows}}

NoDownload == [raised |-> FALSE, frame |-> <<>>]

\* df.dropna()
dropna(series) == SelectSeq(series, LAMBDA r : ~r.na)

\* Python's round() of the exact quotient num/den, den > 0: to the nearest
\* integer, a tie to the even one
RoundDiv(num, den) ==
    LET q == num \div den
        r == num - q * den
    IN  IF 2 * r < den THEN q
        ELSE IF 2 * r > den THEN q + 1
        ELSE IF q % 2 = 0 THEN q ELSE q + 1

\* the fewest valid rows a symbol needs
MinRows == 2

\* round(close, 2): thousandths of a dollar to cents
RoundClose(close) == RoundDiv(close, 10)

\* PctChange with the quotient cut off instead of rounded
PctChangeFloor(close, prev_close) == ((close - prev_close) * 10000) \div prev_close

\* round((close - prev_close) / prev_close * 100.0, 2), in hundredths of a
\* percent; prev_close > 0
PctChange(close, prev_close) == RoundDiv((close - prev_close) * 10000, prev_close)

\* the frame of one symbol: data itself for a single symbol, data[symbol] otherwise
SymbolFrame(t, symbols, d) ==
    IF Len(symbols) = 1 THEN [present |-> TRUE, series |-> d.frame[t.symbol].series]
    ELSE d.frame[t.symbol]

\* the body of the loop of fetch_market_data for one ticker: the rows it
\* appends, none when it continues
TickerRows(t, symbols, d) ==
    LET col == SymbolFrame(t, symbols, d)
        valid == dropna(col.series)
    IN  IF ~col.present THEN <<>>
        ELSE IF Len(valid) < MinRows THEN <<>>
        ELSE LET close == valid[Len(valid)].Close
                 prev_close == valid[Len(valid) - 1].Close
             IN  IF prev_close = 0 THEN <<>>   \* ZeroDivisionError, caught
                 ELSE << [symbol |-> t.symbol, name |-> t.name, industry |-> t.industry,
                          close |-> RoundClose(close),
                          pct_change |-> PctChange(close, prev_close)] >>

RECURSIVE LoopRowsBreak(_, _, _, _)
\* LoopRows with break in place of continue
LoopRowsBreak(ts, i, symbols, d) ==
    IF i > Len(ts) \/ TickerRows(ts[i], symbols, d) = <<>> THEN <<>>
    ELSE TickerRows(ts[i], symbols, d) \o LoopRowsBreak(ts, i + 1, symbols, d)

RECURSIVE LoopRows(_, _, _, _)
\* the loop of fetch_market_data over tickers[i..]
LoopRows(ts, i, symbols, d) ==
    IF i > Len(ts) THEN <<>>
    ELSE TickerRows(ts[i], symbols, d) \o LoopRows(ts, i + 1, symbols, d)

\* Before with ascending=True
BeforeAscending(r, s) == r.pct_change <= s.pct_change

\* r may stand before s in a frame sorted by pct_change, ascending=False
Before(r, s) == r.pct_change >= s.pct_change

\* the ways to put row r into the sorted sequence s
Insert(r, s) ==
    {SubSeq(s, 1, k) \o <<r>> \o SubSeq(s, k + 1, Len(s)) :
        k \in {j \in 0..Len(s) :
                  /\ \A i \in 1..j : Before(s[i], r)
                  /\ \A i \in (j + 1)..Len(s) : Before(r, s[i])}}

RECURSIVE sort_values(_)
\* df_result.sort_values(by="pct_change", ascending=False).reset_index(drop=True):
\* the sort is not stable, so equal rows may come out in any order
sort_values(rs) ==
    IF rs = <<>> THEN {<<>>}
    ELSE UNION {Insert(Head(rs), s) : s \in sort_values(Tail(rs))}

\* fetch_market_data(tickers) when yf.download answers d: the rows it
\* computes, before the sort
fetch_rows(ts, d) ==
    IF ts = <<>> \/ d.raised THEN <<>>
    ELSE LoopRows(ts, 1, [i \in DOMAIN ts |-> ts[i].symbol], d)

\* IsSet when only None counts as missing
IsNotNone(key) == key # "unset"

\* Python's truth value of an environment variable read by os.getenv
IsSet(key) == key = "set"

NO_KEY_TEXT == "GEMINI_API_KEY not configured, no AI analysis"
FAILED_TEXT == "AI analysis failed, check the LLM configuration or retry later"
LLM_TEXT == "analysis written by the model"

\* the ways the request of fetch_news can end; an article has a title or none
NewsResponses ==
    {[kind |-> k, results |-> <<>>] : k \in {"raise", "http_error", "not_json"}} \cup
    {[kind |-> "ok", results |-> r] :
        r \in {<<>>, <<[title |-> "Fed holds rates", source_id |-> "wire"]>>,
               <<[title |-> "", source_id |-> "wire"]>>}}

\* fetch_news(): the headlines it returns, and whether the provider was contacted
fetch_news(key, resp) ==
    IF ~key THEN [headlines |-> <<>>, called |-> FALSE]
    ELSE IF resp.kind # "ok" THEN [headlines |-> <<>>, called |-> TRUE]
    ELSE [headlines |-> [i \in DOMAIN SelectSeq(resp.results, LAMBDA a : a.title # "") |->
                            SelectSeq(resp.results, LAMBDA a : a.title # "")[i].title],
          called |-> TRUE]

\* the ways the request of call_llm_analysis can end: requests.post raises,
\* an error status, a body that is not JSON, a body without
\* candidates[0].content.parts[0].text, or a completion
LlmResponses == {"raise", "http_error", "not_json", "no_path", "ok"}
LlmErrors == LlmResponses \ {"ok"}

\* call_llm_analysis when the handler catches only the errors of the request
call_llm_analysis_narrow(key, resp) ==
    IF ~IsSet(key) THEN [text |-> NO_KEY_TEXT, called |-> FALSE, raised |-> FALSE]
    ELSE IF resp = "ok" THEN [text |-> LLM_TEXT, called |-> TRUE, raised |-> FALSE]
    ELSE IF resp \in {"not_json", "no_path"} THEN [text |-> "", called |-> TRUE, raised |-> TRUE]
    ELSE [text |-> FAILED_TEXT, called |-> TRUE, raised |-> FALSE]

\* call_llm_analysis(df, news_headlines): the text it returns, whether the
\* provider was contacted, and whether an exception leaves it
call_llm_analysis(key, resp) ==
    IF ~IsSet(key) THEN [text |-> NO_KEY_TEXT, called |-> FALSE, raised |-> FALSE]
    ELSE IF resp = "ok" THEN [text |-> LLM_TEXT, called |-> TRUE, raised |-> FALSE]
    ELSE [text |-> FAILED_TEXT, called |-> TRUE, raised |-> FALSE]

\* the sign put before a percent change in the table
Sign(pct) == IF pct > 0 THEN "+" ELSE ""

\* build_email_html(df, analysis_text, bj_now): the table rows and the analysis
build_email_html(d, text) ==
    [rows_html |-> [i \in DOMAIN d |->
                       [rank |-> i, symbol |-> d[i].symbol, name |-> d[i].name,
                        industry |-> d[i].industry, sign |-> Sign(d[i].pct_change),
                        pct |-> d[i].pct_change]],
     analysis_html |-> text]

NoHtml == [rows_html |-> <<>>, analysis_html |-> ""]

\* the ways the request of send_email can end
EmailResponses == {"raise", "http_error", "ok"}

\* send_email(subject, html_body): whether the provider was contacted and
\* whether an exception leaves it. When requests.post raises, resp was never
\* bound, and hasattr(resp, 'text') in the handler raises UnboundLocalError.
send_email(key, resp) ==
    IF ~key THEN [called |-> FALSE, raised |-> FALSE]
    ELSE IF resp = "raise" THEN [called |-> TRUE, raised |-> TRUE]
    ELSE [called |-> TRUE, raised |-> FALSE]

\* AfterLoad without the early return
AfterLoadNoReturn(ts) == "fetch"

\* main(): where it goes after load_tickers()
AfterLoad(ts) == IF ts = <<>> THEN "exit" ELSE "fetch"

\* AfterFetch without the early return
AfterFetchNoReturn(d) == "news"

\* main(): where it goes after fetch_market_data()
AfterFetch(d) == IF d = <<>> THEN "exit" ELSE "news"

ExitCode(p) == IF p = "exit" THEN "0" ELSE IF p = "crashed" THEN "nonzero" ELSE "none"

\* main() has not run a statement yet
MainLocals ==
    /\ tickers = <<>>
    /\ data = NoDownload
    /\ rows = <<>>
    /\ df = <<>>
    /\ news_headlines = <<>>
    /\ llm_resp = "none"
    /\ analysis_text = ""
    /\ html_body = NoHtml
    /\ email_resp = "none"
    /\ calls = {}
    /\ exit_code = "none"

MainInit ==
    /\ RESEND_API_KEY \in BOOLEAN
    /\ GEMINI_API_KEY \in {"unset", "empty", "set"}
    /\ NEWSDATA_API_KEY \in BOOLEAN
    /\ pc = "load"
    /\ MainLocals

\* main.py is not running
MainIdle ==
    /\ RESEND_API_KEY = FALSE
    /\ GEMINI_API_KEY = "unset"
    /\ NEWSDATA_API_KEY = FALSE
    /\ pc = "idle"
    /\ MainLocals

\* update_tickers.py is not running
UpdIdle ==
    /\ upc = "idle"
    /\ old_json = Missing
    /\ base = "none"
    /\ u_tickers = <<>>
    /\ index = 0
    /\ looked_up = <<>>
    /\ data_list = <<>>
    /\ top_50 = <<>>

Init ==
    /\ tickers_json \in TickerFiles
    /\ MainInit
    /\ UpdIdle

\* main.py:407-410
LoadTickers ==
    /\ pc = "load"
    /\ tickers' = load_tickers(tickers_json)
    /\ pc' = AfterLoad(tickers')
    /\ exit_code' = ExitCode(pc')
    /\ UNCHANGED <<tickers_json, RESEND_API_KEY, GEMINI_API_KEY, NEWSDATA_API_KEY, data,
                   rows, df, news_headlines, llm_resp, analysis_text, html_body,
                   email_resp, calls, updVars>>

\* main.py:414-417, with fetch_market_data
FetchMarketData ==
    /\ pc = "fetch"
    /\ IF tickers = <<>>
       THEN /\ data' = NoDownload
            /\ rows' = <<>>
            /\ df' = <<>>
            /\ calls' = calls
       ELSE \E d \in Downloads({tickers[i].symbol : i \in DOMAIN tickers}) :
            /\ data' = d
            /\ rows' = fetch_rows(tickers, d)
            /\ df' \in sort_values(rows')
            /\ calls' = calls \cup {"quote"}
    /\ pc' = AfterFetch(df')
    /\ exit_code' = ExitCode(pc')
    /\ UNCHANGED <<tickers_json, RESEND_API_KEY, GEMINI_API_KEY, NEWSDATA_API_KEY, tickers,
                   news_headlines, llm_resp, analysis_text, html_body, email_resp, updVars>>

\* main.py:421, with fetch_news; the locals of fetch_market_data are gone
FetchNews ==
    /\ pc = "news"
    /\ \E resp \in NewsResponses :
          LET r == fetch_news(NEWSDATA_API_KEY, resp)
          IN  /\ news_headlines' = r.headlines
              /\ calls' = IF r.called THEN calls \cup {"news"} ELSE calls
    /\ data' = NoDownload
    /\ rows' = <<>>
    /\ pc' = "llm"
    /\ UNCHANGED <<tickers_json, RESEND_API_KEY, GEMINI_API_KEY, NEWSDATA_API_KEY, tickers,
                   df, llm_resp, analysis_text, html_body, email_resp, exit_code, updVars>>

\* main.py:425, with call_llm_analysis
CallLlmAnalysis ==
    /\ pc = "llm"
    /\ \E resp \in LlmResponses :
          LET r == call_llm_analysis(GEMINI_API_KEY, resp)
          IN  /\ llm_resp' = IF r.called THEN resp ELSE "none"
              /\ calls' = IF r.called THEN calls \cup {"llm"} ELSE calls
              /\ analysis_text' = IF r.raised THEN analysis_text ELSE r.text
              /\ pc' = IF r.raised THEN "crashed" ELSE "build"
    /\ exit_code' = ExitCode(pc')
    /\ UNCHANGED <<tickers_json, RESEND_API_KEY, GEMINI_API_KEY, NEWSDATA_API_KEY, tickers,
                   data, rows, df, news_headlines, html_body, email_resp, updVars>>

\* main.py:428-432, with build_email_html
BuildEmail ==
    /\ pc = "build"
    /\ html_body' = build_email_html(df, analysis_text)
    /\ pc' = "send"
    /\ UNCHANGED <<tickers_json, RESEND_API_KEY, GEMINI_API_KEY, NEWSDATA_API_KEY, tickers,
                   data, rows, df, news_headlines, llm_resp, analysis_text, email_resp,
                   calls, exit_code, updVars>>

\* main.py:436-437, with send_email
SendEmail ==
    /\ pc = "send"
    /\ \E resp \in EmailResponses :
          LET r == send_email(RESEND_API_KEY, resp)
          IN  /\ email_resp' = IF r.called THEN resp ELSE "skipped"
              /\ calls' = IF r.called THEN calls \cup {"email"} ELSE calls
              /\ pc' = IF r.raised THEN "crashed" ELSE "exit"
    /\ exit_code' = ExitCode(pc')
    /\ UNCHANGED <<tickers_json, RESEND_API_KEY, GEMINI_API_KEY, NEWSDATA_API_KEY, tickers,
                   data, rows, df, news_headlines, llm_resp, analysis_text, html_body,
                   updVars>>

Next ==
    \/ LoadTickers
    \/ FetchMarketData
    \/ FetchNews
    \/ CallLlmAnalysis
    \/ BuildEmail
    \/ SendEmail

Spec == Init /\ [][Next]_vars

(***************************************************************************)
(* update_tickers.py                                                       *)
(***************************************************************************)
\* the most symbols the base list holds
MaxCandidates == 3
\* the number of records kept: data_list[:50], scaled down to the model
TopN == 2

\* symbols of the base list, character by character
WikiSymbols == {<<"A">>, <<"B", "F", ".", "B">>, <<"C">>, <<"D">>}
MarketCaps == {0, 5, 9}

\* str.replace(old, new) for one-character old and new
replace(str, old, new) == [i \in DOMAIN str |-> IF str[i] = old THEN new ELSE str[i]]

\* the ways pd.read_html and the Symbol column can end
BaseLists ==
    {[failed |-> TRUE, symbols |-> <<>>]} \cup
    {[failed |-> FALSE, symbols |-> l] : l \in SeqsNoDup(WikiSymbols, MaxCandidates)}

\* the ways the lookup of one symbol can end: it raises, or info is at
\* hand; marketCap 0 also stands for a missing or None marketCap
Lookups ==
    {[raised |-> TRUE, marketCap |-> 0]} \cup
    {[raised |-> FALSE, marketCap |-> c] : c \in MarketCaps}

\* what tickers.json may hold when the refresh starts
OldFiles ==
    {Missing, File(<<>>),
     File(<<[symbol |-> <<"A">>, name |-> "A Inc.", industry |-> "Tools"]>>)}

\* the record appended to data_list for a looked-up symbol
CapRecord(symbol, info) ==
    [symbol |-> replace(symbol, "-", "."), name |-> "longName", industry |-> "industry",
     marketCap |-> info.marketCap]

\* the body of the loop for one symbol: data_list after it
LookupStep(list, symbol, info) ==
    IF info.raised THEN list
    ELSE IF info.marketCap # 0 THEN Append(list, CapRecord(symbol, info))
    ELSE list

\* x put into the list sorted by marketCap, largest first, behind its equals
InsertByCap(sorted, x) ==
    LET k == Cardinality({i \in DOMAIN sorted : sorted[i].marketCap >= x.marketCap})
    IN  SubSeq(sorted, 1, k) \o <<x>> \o SubSeq(sorted, k + 1, Len(sorted))

RECURSIVE SortByCapDesc(_, _)
\* data_list.sort(key=marketCap, reverse=True), a stable sort: list[1..n] sorted
SortByCapDesc(list, n) ==
    IF n = 0 THEN <<>> ELSE InsertByCap(SortByCapDesc(list, n - 1), list[n])

\* Truncate that keeps one record too many
TruncateOneMore(list) == SubSeq(list, 1, IF Len(list) < TopN + 1 THEN Len(list) ELSE TopN + 1)

\* data_list[:50]
Truncate(list) == SubSeq(list, 1, IF Len(list) < TopN THEN Len(list) ELSE TopN)

\* final_output
FinalOutput(top) ==
    [i \in DOMAIN top |->
        [symbol |-> top[i].symbol, name |-> top[i].name, industry |-> top[i].industry]]

\* AfterReadHtml without the return of the handler
AfterReadHtmlNoReturn(b) == "lookup"

\* where update_top_50_tickers goes after the base list
AfterReadHtml(b) == IF b.failed THEN "done" ELSE "lookup"

UpdInit ==
    /\ tickers_json \in OldFiles
    /\ old_json = tickers_json
    /\ upc = "read_html"
    /\ base = "none"
    /\ u_tickers = <<>>
    /\ index = 0
    /\ looked_up = <<>>
    /\ data_list = <<>>
    /\ top_50 = <<>>
    /\ MainIdle

\* update_tickers.py:10-19
ReadHtml ==
    /\ upc = "read_html"
    /\ \E b \in BaseLists :
          /\ base' = IF b.failed THEN "failed" ELSE "ok"
          /\ u_tickers' = [i \in DOMAIN b.symbols |-> replace(b.symbols[i], ".", "-")]
          /\ upc' = AfterReadHtml(b)
    /\ UNCHANGED <<tickers_json, old_json, index, looked_up, data_list, top_50, mainVars>>

\* update_tickers.py:24-50, one turn of the loop
Lookup ==
    /\ upc = "lookup"
    /\ index < Len(u_tickers)
    /\ \E info \in Lookups :
          /\ looked_up' = Append(looked_up, info)
          /\ data_list' = LookupStep(data_list, u_tickers[index + 1], info)
    /\ index' = index + 1
    /\ UNCHANGED <<tickers_json, old_json, upc, base, u_tickers, top_50, mainVars>>

\* update_tickers.py:53-62
WriteFile ==
    /\ upc = "lookup"
    /\ index = Len(u_tickers)
    /\ data_list' = SortByCapDesc(data_list, Len(data_list))
    /\ top_50' = Truncate(data_list')
    /\ tickers_json' = File(FinalOutput(top_50'))
    /\ upc' = "done"
    /\ UNCHANGED <<old_json, base, u_tickers, index, looked_up, mainVars>>

UpdNext ==
    \/ ReadHtml
    \/ Lookup
    \/ WriteFile

SpecUpdate == UpdInit /\ [][UpdNext]_vars

(***************************************************************************)
(* Properties of main.py                                                   *)
(***************************************************************************)
Abs(x) == IF x < 0 THEN 0 - x ELSE x

\* fetch_market_data has just returned and its download is at hand
Fetched == "quote" \in calls /\ DOMAIN data.frame # {}

\* the dates at which the downloaded series of sym has no missing value
ValidDates(sym) ==
    LET col == data.frame[sym]
    IN  {k \in DOMAIN col.series : ~col.series[k].na}

\* the latest valid date of sym, and the one before it
LastDate(sym) == CHOOSE k \in ValidDates(sym) : \A m \in ValidDates(sym) : m <= k
PrevDate(sym) ==
    CHOOSE k \in ValidDates(sym) \ {LastDate(sym)} :
        \A m \in ValidDates(sym) \ {LastDate(sym)} : m <= k
LastClose(sym) == data.frame[sym].series[LastDate(sym)].Close
PrevClose(sym) == data.frame[sym].series[PrevDate(sym)].Close

InSnapshot(sym) == \E j \in DOMAIN df : df[j].symbol = sym
Ended == pc \in {"exit", "crashed"}

\* C1: when tickers.json is missing or holds an empty array, main returns
\* right after load_tickers with exit code 0, and no provider (quote, news,
\* language model, email) is ever contacted in that run.
C1_EmptyTickersNoProviderCall ==
    (~tickers_json.exists \/ tickers_json.content = <<>>) =>
        /\ calls = {}
        /\ pc \in {"load", "exit"}
        /\ pc = "exit" => exit_code = "0"

C1_Witness ==
    /\ tickers_json = File(<<>>)
    /\ pc = "exit"
    /\ tickers = <<>>
    /\ calls = {}

\* C2: when the email request fails (requests.post raises, or the response
\* has an error status), send_email returns normally and the run completes
\* with a non-error exit.
C2_EmailFailureContained ==
    email_resp \in {"raise", "http_error"} => pc = "exit" /\ exit_code = "0"

\* C3 as claimed: after a download that did not raise, a symbol of the list
\* is absent from the snapshot exactly when it has fewer than 2 valid rows.
C3_ExcludesExactlyInsufficient ==
    (Fetched /\ ~data.raised) =>
        \A i \in DOMAIN tickers :
            LET sym == tickers[i].symbol
            IN  InSnapshot(sym) <=> Cardinality(ValidDates(sym)) >= 2

\* C3 as amended: after a download that did not raise, a symbol with fewer
\* than 2 valid rows is absent from the snapshot, and a symbol with at least
\* 2 valid rows is present unless the Close of its second-to-last valid row
\* is 0, in which case the division by zero is caught and that symbol alone
\* is left out.
C3_ExcludesInsufficientOrZeroBase ==
    (Fetched /\ ~data.raised) =>
        \A i \in DOMAIN tickers :
            LET sym == tickers[i].symbol
            IN  InSnapshot(sym) <=>
                    (Cardinality(ValidDates(sym)) >= 2 /\ PrevClose(sym) # 0)

C3_Witness ==
    /\ Fetched /\ ~data.raised
    /\ Len(tickers) = 2
    /\ Cardinality(ValidDates(tickers[1].symbol)) = 1
    /\ Cardinality(ValidDates(tickers[2].symbol)) = 2
    /\ ~InSnapshot(tickers[1].symbol)
    /\ InSnapshot(tickers[2].symbol)

\* C4: every row of the snapshot has pct_change equal to
\* (close - prevClose) / prevClose * 100 rounded to 2 decimal places (it is a
\* nearest multiple of 0.01), where close and prevClose are the Close values
\* of the last and second-to-last valid rows of its symbol.
C4_PctChangeRounded ==
    Fetched =>
        \A j \in DOMAIN df :
            LET c == LastClose(df[j].symbol)
                p == PrevClose(df[j].symbol)
            IN  /\ Cardinality(ValidDates(df[j].symbol)) >= 2
                /\ p # 0
                /\ 2 * Abs(df[j].pct_change * p - 10000 * (c - p)) <= Abs(p)

C4_Witness ==
    /\ Fetched
    /\ \E j \in DOMAIN df :
          /\ LastClose(df[j].symbol) = 33004
          /\ PrevClose(df[j].symbol) = 32000
          /\ df[j].pct_change = 314

\* C5: the snapshot is sorted by pct_change in non-increasing order, and it
\* holds exactly the rows that were computed, each as often as computed.
C5_SortedDescending ==
    Fetched =>
        /\ \A j \in 1..(Len(df) - 1) : df[j].pct_change >= df[j + 1].pct_change
        /\ Len(df) = Len(rows)
        /\ \A r \in Range(df) \cup Range(rows) :
              Cardinality({j \in DOMAIN df : df[j] = r}) =
              Cardinality({j \in DOMAIN rows : rows[j] = r})

C5_Witness ==
    /\ Fetched
    /\ Len(rows) = 2
    /\ rows[1].pct_change < rows[2].pct_change
    /\ df = <<rows[2], rows[1]>>

\* C6: with GEMINI_API_KEY unset or empty and a non-empty snapshot, the
\* language-model provider is never contacted, the analysis is the fixed
\* no-key text, and a run that ends has been through send_email.
C6_NoKeyFallbackProceeds ==
    (~(GEMINI_API_KEY = "set") /\ df # <<>>) =>
        /\ "llm" \notin calls
        /\ pc \in {"build", "send", "exit", "crashed"} => analysis_text = NO_KEY_TEXT
        /\ pc \in {"send", "exit", "crashed"} => html_body.analysis_html = NO_KEY_TEXT
        /\ Ended => email_resp # "none"

C6_Witness ==
    /\ GEMINI_API_KEY = "empty"
    /\ df # <<>>
    /\ pc = "exit"
    /\ analysis_text = NO_KEY_TEXT
    /\ email_resp = "ok"

\* C7: when the language-model request fails or its answer cannot be parsed,
\* the analysis is the fixed failure text, no exception leaves
\* call_llm_analysis, and a run that ends has been through the render and
\* dispatch steps.
C7_LlmErrorFallbackProceeds ==
    llm_resp \in LlmErrors =>
        /\ analysis_text = FAILED_TEXT
        /\ pc \in {"build", "send", "exit", "crashed"}
        /\ pc \in {"send", "exit", "crashed"} => html_body.analysis_html = FAILED_TEXT
        /\ Ended => email_resp # "none"

C7_Witness ==
    /\ llm_resp = "no_path"
    /\ pc = "exit"
    /\ analysis_text = FAILED_TEXT
    /\ email_resp = "ok"

\* C8: when fetch_market_data returns an empty snapshot, main returns with
\* exit code 0 and the news, language-model and email providers are never
\* contacted.
C8_EmptySnapshotAborts ==
    (pc \notin {"load", "fetch"} /\ df = <<>>) =>
        /\ pc = "exit"
        /\ exit_code = "0"
        /\ calls \cap {"news", "llm", "email"} = {}

C8_Witness ==
    /\ pc = "exit"
    /\ tickers # <<>>
    /\ Fetched /\ ~data.raised
    /\ \E i \in DOMAIN tickers : Cardinality(ValidDates(tickers[i].symbol)) = 1
    /\ df = <<>>

(***************************************************************************)
(* Properties of update_tickers.py                                         *)
(***************************************************************************)
\* the lookups that gave a non-zero market cap
Candidates == {k \in DOMAIN looked_up : ~looked_up[k].raised /\ looked_up[k].marketCap # 0}

\* the lookups whose record was written
Written == {k \in Candidates : \E i \in DOMAIN top_50 : top_50[i] = CapRecord(u_tickers[k], looked_up[k])}

Min(a, b) == IF a < b THEN a ELSE b

\* C9: when the base list cannot be fetched, the refresh ends with
\* tickers.json as it was (not written, truncated or created) and without a
\* single market-cap lookup.
C9_BaseFailureLeavesFile ==
    base = "failed" =>
        /\ upc = "done"
        /\ tickers_json = old_json
        /\ index = 0
        /\ looked_up = <<>>

C9_Witness ==
    /\ base = "failed"
    /\ upc = "done"
    /\ old_json.exists
    /\ old_json.content # <<>>
    /\ tickers_json = old_json

\* C10: when the base list is fetched, the refresh ends with tickers.json
\* overwritten by the top-N records by market cap: at most N records, in
\* non-increasing market-cap order, each from a lookup that succeeded with a
\* non-zero market cap, every candidate left out having a market cap no
\* greater than that of any record written; every symbol of the base list
\* is looked up, a failed lookup leaving out that symbol alone.
C10_TopNWritten ==
    (base = "ok" /\ upc = "done") =>
        /\ tickers_json = File(FinalOutput(top_50))
        /\ Len(top_50) <= TopN
        /\ Len(top_50) = Min(TopN, Cardinality(Candidates))
        /\ \A i \in 1..(Len(top_50) - 1) : top_50[i].marketCap >= top_50[i + 1].marketCap
        /\ \A i \in DOMAIN top_50 :
              \E k \in Candidates : top_50[i] = CapRecord(u_tickers[k], looked_up[k])
        /\ \A k \in Candidates \ Written :
              \A i \in DOMAIN top_50 : looked_up[k].marketCap <= top_50[i].marketCap
        /\ index = Len(u_tickers)
        /\ Len(looked_up) = Len(u_tickers)

C10_Witness ==
    /\ base = "ok" /\ upc = "done"
    /\ Len(u_tickers) = 3
    /\ looked_up[1].raised
    /\ looked_up[2].marketCap = 5
    /\ looked_up[3].marketCap = 9
    /\ u_tickers[3] = <<"B", "F", "-", "B">>
    /\ Len(tickers_json.content) = 2
    /\ tickers_json.content[1].symbol = <<"B", "F", ".", "B">>

====
